---- MODULE Spec2Model ----
(***************************************************************************)
(* A model of the wasper execution core (src/src/exec/runtime.rs): the     *)
(* Store, the Instances, instantiation (Runtime::new / new_instance /      *)
(* get_func_addr / eval_const) and the interpreter (exec / step / jump).   *)
(*                                                                         *)
(* The recursion of exec and step is modelled by an explicit control       *)
(* stack `ctl`: one entry per active call of exec, holding the instruction *)
(* sequence, the index `next` and the Frame.  `pending` is the value an    *)
(* exec call is returning to the step that made it (an ExecState other     *)
(* than Continue, or a Trap).  A Rust panic ends the program: phase        *)
(* "panicked".                                                             *)
(*                                                                         *)
(* Addresses and indices keep the source's 0-based values; a sequence s is *)
(* read at address a as s[a + 1].                                          *)
(***************************************************************************)
EXTENDS Integers, Sequences, FiniteSets, TLC

VARIABLES
    scen,       \* the embedder's input: root module and importer registry
    overflow_checks, \* build profile: TRUE = debug (arithmetic overflow panics)
    phase,      \* "init" | "idle" | "running" | "failed" | "panicked" | "off"
    instances,  \* Runtime.instances
    store,      \* Runtime.store
    root,       \* Runtime.root
    ctl,        \* active exec calls, outermost first
    pending,    \* the ExecState / Trap being returned by the top exec call
    result,     \* what the last facade call returned
    ninv,       \* number of facade calls made so far
    calls,      \* what the facade calls that have returned returned, in order
    last,       \* the last step taken (kind and operands), for the properties
    fin,        \* input of the pure-function specifications
    fout        \* output of the pure-function specifications

vars == <<scen, overflow_checks, phase, instances, store, root, ctl, pending,
          result, ninv, calls, last, fin, fout>>

-----------------------------------------------------------------------------
(* Bounds of the model *)

\* facade calls (start / invoke) per run
MaxCalls == 2
\* values and labels of the stacks jump is applied to in SpecJump
MaxJumpVals == 3
MaxJumpLabels == 2
\* length of the initializer expressions eval_const is applied to in SpecConst
MaxExprLen == 2
\* values of the stacks binary_op is applied to in SpecBinOp
MaxBinOpVals == 3

-----------------------------------------------------------------------------
(* Helpers on sequences *)

Last(s) == s[Len(s)]

Front(s) == SubSeq(s, 1, Len(s) - 1)

Reverse(s) == [i \in 1..Len(s) |-> s[Len(s) + 1 - i]]

SeqsUpTo(S, n) == UNION {[1..k -> S] : k \in 0..n}

-----------------------------------------------------------------------------
(* Values: exec/stack.rs Value, a tagged sum *)

I32(v) == [tag |-> "I32", v |-> v]

I64(v) == [tag |-> "I64", v |-> v]

F32(v) == [tag |-> "F32", v |-> v]

F64(v) == [tag |-> "F64", v |-> v]

\* i32::MAX and i32::MIN
MaxI32 == 2147483647

MinI32 == -MaxI32 - 1

\* a + b leaves the i32 range
add_overflows(a, b) ==
    IF a > 0 THEN b > MaxI32 - a
    ELSE IF a < 0 THEN b < MinI32 - a
    ELSE FALSE

\* a + b reduced modulo 2^32 into the i32 range (no intermediate result
\* leaves the range)
wrapping_add(a, b) ==
    IF a > 0 /\ b > MaxI32 - a THEN (((a - MaxI32) - 1) + b) - MaxI32 - 1
    ELSE IF a < 0 /\ b < MinI32 - a THEN (((a + MaxI32) + 1) + b) + MaxI32 + 1
    ELSE a + b

-----------------------------------------------------------------------------
(* Stack: the value region and the label region of an Instance's stack *)

StackNew == [values |-> <<>>, labels |-> <<>>]

push_value(s, v) == [s EXCEPT !.values = Append(@, v)]

\* the stack after pop_value; the popped value is Last(s.values)
pop_value(s) == [s EXCEPT !.values = Front(@)]

values_len(s) == Len(s.values)

push_label(s, label) == [s EXCEPT !.labels = Append(@, label)]

pop_label(s) == [s EXCEPT !.labels = Front(@)]

\* the l-th label from the top, l = 0 the innermost
th_label(s, l) == s.labels[Len(s.labels) - l]

\* get_returns drains the value region: the vector returned ...
get_returns(s) == s.values

\* ... and the stack it leaves
drained(s) == [s EXCEPT !.values = <<>>]

\* the n topmost values in the order n calls of pop_value return them
PopN(s, n) == [i \in 1..n |-> s.values[Len(s.values) + 1 - i]]

\* the stack after n calls of pop_value
DropN(s, n) == [s EXCEPT !.values = SubSeq(@, 1, Len(@) - n)]

\* the stack after n calls of pop_label
DropLabels(s, n) == [s EXCEPT !.labels = SubSeq(@, 1, Len(@) - n)]

RECURSIVE PushAll(_, _)
PushAll(s, vs) ==
    IF vs = <<>> THEN s ELSE PushAll(push_value(s, vs[1]), SubSeq(vs, 2, Len(vs)))

-----------------------------------------------------------------------------
(* Instance::jump.  The result is [ok, stack]: ok = FALSE is a panic       *)
(* (th_label or pop_value on a region that is too short; the usize         *)
(* subtraction values_len() - label.offset below zero, which panics in a   *)
(* debug build and in a release build wraps to a count of pops no stack    *)
(* can serve).  JumpWith(s, l, nlabels, rev) is the body of jump with the  *)
(* number of labels popped and the order of the push-back as parameters.   *)

JumpWith(s, l, nlabels, rev) ==
    IF l >= Len(s.labels) THEN [ok |-> FALSE, stack |-> s]
    ELSE LET label == th_label(s, l) IN
      IF label.n > values_len(s) THEN [ok |-> FALSE, stack |-> s]
      ELSE LET values == PopN(s, label.n)
               s1 == DropN(s, label.n) IN
        IF values_len(s1) < label.offset THEN [ok |-> FALSE, stack |-> s]
        ELSE LET len == values_len(s1) - label.offset
                 s2 == DropN(s1, len)
                 s3 == DropLabels(s2, nlabels)
             IN [ok |-> TRUE,
                 stack |-> PushAll(s3, IF rev THEN Reverse(values) ELSE values)]

\* jump with the buffered values pushed back without .rev()
JumpNoRev(s, l) == JumpWith(s, l, l + 1, FALSE)

jump(s, l) == JumpWith(s, l, l + 1, TRUE)

-----------------------------------------------------------------------------
(* eval_const.  [k, value]: k = "Ok", "Err" (ConstantExpression) or        *)
(* "Panic" (expr.0[0] on an empty vector).                                 *)

NoValue == I32(0)

eval_const(expr) ==
    IF Len(expr) = 0 THEN [k |-> "Panic", value |-> NoValue]
    ELSE LET i == expr[1] IN
      CASE i.op = "I32Const" -> [k |-> "Ok", value |-> I32(i.v)]
        [] i.op = "I64Const" -> [k |-> "Ok", value |-> I64(i.v)]
        [] i.op = "F32Const" -> [k |-> "Ok", value |-> F32(i.v)]
        [] i.op = "F64Const" -> [k |-> "Ok", value |-> F64(i.v)]
        [] OTHER -> [k |-> "Err", value |-> NoValue]

-----------------------------------------------------------------------------
(* Instructions (binary Instr), block types, function types *)

I32Const(v) == [op |-> "I32Const", v |-> v]

I64Const(v) == [op |-> "I64Const", v |-> v]

F32Const(v) == [op |-> "F32Const", v |-> v]

F64Const(v) == [op |-> "F64Const", v |-> v]

I32Add == [op |-> "I32Add"]

\* an opcode step has no arm for
I32Sub == [op |-> "I32Sub"]

Nop == [op |-> "Nop"]

Unreachable == [op |-> "Unreachable"]

Block(bt, in1) == [op |-> "Block", bt |-> bt, in1 |-> in1]

Loop(bt, in1) == [op |-> "Loop", bt |-> bt, in1 |-> in1]

\* If with in2 = Some(in2)
IfElse(bt, in1, in2) ==
    [op |-> "If", bt |-> bt, in1 |-> in1, has2 |-> TRUE, in2 |-> in2]

\* If with in2 = None
IfThen(bt, in1) ==
    [op |-> "If", bt |-> bt, in1 |-> in1, has2 |-> FALSE, in2 |-> <<>>]

Br(l) == [op |-> "Br", l |-> l]

BrIf(l) == [op |-> "BrIf", l |-> l]

BrTable(indexs, default) ==
    [op |-> "BrTable", indexs |-> indexs, default |-> default]

Return == [op |-> "Return"]

Call(a) == [op |-> "Call", a |-> a]

LocalGet(l) == [op |-> "LocalGet", l |-> l]

GlobalGet(i) == [op |-> "GlobalGet", i |-> i]

GlobalSet(i) == [op |-> "GlobalSet", i |-> i]

BtEmpty == [k |-> "Empty", idx |-> 0]

BtValType == [k |-> "ValType", idx |-> 0]

BtTypeIdx(idx) == [k |-> "TypeIdx", idx |-> idx]

\* FuncType(ResultType, ResultType): .0 the parameters, .1 the results
FuncType(params, results) == [params |-> params, results |-> results]

\* Instance::block_to_arity
block_to_arity(instance, bt) ==
    CASE bt.k = "Empty" -> 0
      [] bt.k = "ValType" -> 1
      [] bt.k = "TypeIdx" -> Len(instance.types[bt.idx + 1].results)

-----------------------------------------------------------------------------
(* Store and instantiation *)

HOST_MODULE == "__env"

StoreNew == [funcs |-> <<>>, globals |-> <<>>]

InnerFunc(functype, instance_addr, func) ==
    [kind |-> "InnerFunc", functype |-> functype,
     instance_addr |-> instance_addr, func |-> func]

HostFunc(functype, name) ==
    [kind |-> "HostFunc", functype |-> functype, name |-> name]

GlobalInst(globaltype, value) == [globaltype |-> globaltype, value |-> value]

\* Allocatable for FuncInst: the store after the push; the address is the old length
allocate_func(st, value) == [st EXCEPT !.funcs = Append(@, value)]

\* Allocatable for GlobalInst
allocate_global(st, value) == [st EXCEPT !.globals = Append(@, value)]

\* update_func_inst with the patch applied to every InnerFunc of the store
UpdateFuncInstAll(st, funcaddrs, instance_addr) ==
    [st EXCEPT !.funcs =
        [a \in 1..Len(@) |->
            IF @[a].kind = "InnerFunc"
            THEN [@[a] EXCEPT !.instance_addr = instance_addr]
            ELSE @[a]]]

\* Store::update_func_inst
update_func_inst(st, funcaddrs, instance_addr) ==
    [st EXCEPT !.funcs =
        [a \in 1..Len(@) |->
            IF (\E j \in 1..Len(funcaddrs) : funcaddrs[j] = a - 1)
               /\ @[a].kind = "InnerFunc"
            THEN [@[a] EXCEPT !.instance_addr = instance_addr]
            ELSE @[a]]]

EmptyInstance ==
    [funcaddrs |-> <<>>, globaladdrs |-> <<>>, types |-> <<>>,
     start |-> [some |-> FALSE, idx |-> 0], exports |-> <<>>, stack |-> StackNew]

Failed(k, err, rt) ==
    [k |-> k, err |-> err, rt |-> rt, instance |-> EmptyInstance, addr |-> 0,
     addrs |-> <<>>]

\* new_instance, the loop over module.globals (lines 226-232)
RECURSIVE GlobalLoop(_, _, _, _)
GlobalLoop(rt, globals, i, globaladdrs) ==
    IF i > Len(globals)
    THEN [k |-> "Ok", err |-> "", rt |-> rt, addrs |-> globaladdrs]
    ELSE LET v == eval_const(globals[i].value) IN
      CASE v.k = "Panic" -> Failed("Panic", "index out of bounds", rt)
        [] v.k = "Err" -> Failed("Err", "ConstantExpression", rt)
        [] OTHER ->
            GlobalLoop(
                [rt EXCEPT !.store =
                    allocate_global(@, GlobalInst(globals[i].type_, v.value))],
                globals, i + 1, Append(globaladdrs, Len(rt.store.globals)))

\* FuncLoop with the address taken as store.funcs.len() after the push
RECURSIVE FuncLoopLenAddr(_, _, _, _)
FuncLoopLenAddr(rt, module, i, inner_funcaddr) ==
    IF i > Len(module.funcs)
    THEN [rt |-> rt, addrs |-> inner_funcaddr]
    ELSE FuncLoopLenAddr(
            [rt EXCEPT !.store =
                allocate_func(@,
                    InnerFunc(module.types[module.funcs[i].typeidx + 1],
                              Len(rt.instances), module.funcs[i]))],
            module, i + 1, Append(inner_funcaddr, Len(rt.store.funcs) + 1))

\* new_instance, the loop over module.funcs (lines 234-243)
RECURSIVE FuncLoop(_, _, _, _)
FuncLoop(rt, module, i, inner_funcaddr) ==
    IF i > Len(module.funcs)
    THEN [rt |-> rt, addrs |-> inner_funcaddr]
    ELSE FuncLoop(
            [rt EXCEPT !.store =
                allocate_func(@,
                    InnerFunc(module.types[module.funcs[i].typeidx + 1],
                              Len(rt.instances), module.funcs[i]))],
            module, i + 1, Append(inner_funcaddr, Len(rt.store.funcs)))

\* the first export named funcname, 0 when there is none (line 264-269)
FirstExport(exports, name) ==
    IF \E j \in 1..Len(exports) : exports[j].name = name
    THEN CHOOSE j \in 1..Len(exports) :
            /\ exports[j].name = name
            /\ \A h \in 1..(j - 1) : exports[h].name # name
    ELSE 0

RECURSIVE new_instance(_, _, _)
RECURSIVE get_func_addr(_, _, _, _)
RECURSIVE ImportLoop(_, _, _, _, _)

\* get_func_addr with the importer's answer unwrapped: no module is a panic
GetFuncAddrUnwrap(rt, reg, modname, funcname) ==
    IF modname \notin DOMAIN reg THEN Failed("Panic", "unwrap on None", rt)
    ELSE LET r == new_instance(rt, reg, reg[modname]) IN
      IF r.k # "Ok" THEN r
      ELSE LET e == FirstExport(r.instance.exports, funcname) IN
        IF e = 0 THEN Failed("Panic", "function not found", r.rt)
        ELSE LET desc == r.instance.exports[e].desc IN
          IF desc.k # "Func" THEN Failed("Panic", "expected function", r.rt)
          ELSE IF desc.idx >= Len(r.instance.funcaddrs)
          THEN Failed("Panic", "index out of bounds", r.rt)
          ELSE [k |-> "Ok", err |-> "",
                rt |-> [r.rt EXCEPT !.instances = Append(@, r.instance)],
                instance |-> r.instance,
                addr |-> r.instance.funcaddrs[desc.idx + 1],
                addrs |-> <<>>]

\* Runtime::get_func_addr.  reg is the Importer's registry, a function from
\* module names to modules; import(modname) is none outside its domain.
get_func_addr(rt, reg, modname, funcname) ==
    IF modname \notin DOMAIN reg THEN Failed("Err", "ModuleNotFound", rt)
    ELSE LET r == new_instance(rt, reg, reg[modname]) IN
      IF r.k # "Ok" THEN r
      ELSE LET e == FirstExport(r.instance.exports, funcname) IN
        IF e = 0 THEN Failed("Panic", "function not found", r.rt)
        ELSE LET desc == r.instance.exports[e].desc IN
          IF desc.k # "Func" THEN Failed("Panic", "expected function", r.rt)
          ELSE IF desc.idx >= Len(r.instance.funcaddrs)
          THEN Failed("Panic", "index out of bounds", r.rt)
          ELSE [k |-> "Ok", err |-> "",
                rt |-> [r.rt EXCEPT !.instances = Append(@, r.instance)],
                instance |-> r.instance,
                addr |-> r.instance.funcaddrs[desc.idx + 1],
                addrs |-> <<>>]

\* new_instance, the loop over module.imports (lines 210-224)
ImportLoop(rt, reg, module, i, funcaddrs) ==
    IF i > Len(module.imports)
    THEN [k |-> "Ok", err |-> "", rt |-> rt, addrs |-> funcaddrs]
    ELSE LET import == module.imports[i] IN
      IF import.desc.k # "TypeIdx"
      THEN ImportLoop(rt, reg, module, i + 1, funcaddrs)
      ELSE IF import.module = HOST_MODULE
      THEN ImportLoop(
              [rt EXCEPT !.store =
                  allocate_func(@, HostFunc(module.types[import.desc.idx + 1],
                                            import.name))],
              reg, module, i + 1, Append(funcaddrs, Len(rt.store.funcs)))
      ELSE LET r == get_func_addr(rt, reg, import.module, import.name) IN
        IF r.k # "Ok" THEN r
        ELSE ImportLoop(r.rt, reg, module, i + 1, Append(funcaddrs, r.addr))

\* Runtime::new_instance
new_instance(rt, reg, module) ==
    LET imp == ImportLoop(rt, reg, module, 1, <<>>) IN
    IF imp.k # "Ok" THEN imp
    ELSE LET glo == GlobalLoop(imp.rt, module.globals, 1, <<>>) IN
      IF glo.k # "Ok" THEN glo
      ELSE LET fun == FuncLoop(glo.rt, module, 1, <<>>)
               instance_addr == Len(fun.rt.instances)
           IN [k |-> "Ok", err |-> "",
               rt |-> [fun.rt EXCEPT !.store =
                          update_func_inst(@, fun.addrs, instance_addr)],
               instance |->
                  [funcaddrs |-> imp.addrs \o fun.addrs,
                   globaladdrs |-> glo.addrs,
                   types |-> module.types,
                   start |-> module.start,
                   exports |-> module.exports,
                   stack |-> StackNew],
               addr |-> 0, addrs |-> <<>>]

\* Runtime::new: [k, err, rt, root]
RuntimeNew(reg, module) ==
    LET r == new_instance([instances |-> <<>>, store |-> StoreNew], reg, module)
    IN IF r.k # "Ok" THEN [k |-> r.k, err |-> r.err, rt |-> r.rt, root |-> 0]
       ELSE [k |-> "Ok", err |-> "",
             rt |-> [r.rt EXCEPT !.instances = Append(@, r.instance)],
             root |-> Len(r.rt.instances)]

-----------------------------------------------------------------------------
(* The interpreter's position *)

NoPending == [k |-> "None", l |-> 0, trap |-> ""]

\* ExecState::Breaking(l)
Breaking(l) == [k |-> "Breaking", l |-> l, trap |-> ""]

\* ExecState::Return
Returning == [k |-> "Return", l |-> 0, trap |-> ""]

\* Err(trap)
Trapped(trap) == [k |-> "Err", l |-> 0, trap |-> trap]

\* Frame { instance_addr, local }
Frame(instance_addr, local) == [instance_addr |-> instance_addr, local |-> local]

\* one call of exec: instrs, next (1-based) and frame; kind names the caller
\* that handles what the call returns.  For the properties, the exec call of a
\* Call also keeps what the stacks held when it began: `below`, the caller
\* instance's values under the parameters, and `base`, the number of values
\* of the callee instance; the exec call of a Block, Loop, If or Call keeps
\* `labels0`, the label region as step found it on entry to the construct
\* (for a Call: the label region of the caller's instance).
ExecCall(kind, instrs, frame) ==
    [kind |-> kind, instrs |-> instrs, next |-> 1, frame |-> frame,
     below |-> <<>>, base |-> 0, labels0 |-> <<>>]

TopCall == ctl[Len(ctl)]

CurFrame == TopCall.frame

CurInstr == TopCall.instrs[TopCall.next]

\* `instance` of step: instances[frame.instance_addr]
CurInstance == instances[CurFrame.instance_addr + 1]

CurStack == CurInstance.stack

\* exec is about to call step on instrs[next]
AtInstr(op) ==
    /\ phase = "running"
    /\ pending.k = "None"
    /\ TopCall.next <= Len(TopCall.instrs)
    /\ CurInstr.op = op

\* an exec call of the given kind is returning `pending` to its caller
AtReturn(kind) ==
    /\ phase = "running"
    /\ pending.k # "None"
    /\ TopCall.kind = kind

WithStack(s) == [instances EXCEPT ![CurFrame.instance_addr + 1].stack = s]

\* next += 1 in the top exec call
Advance(c) == [c EXCEPT ![Len(c)].next = @ + 1]

NoBr == [set |-> FALSE, depth |-> 0, next |-> 0]

NoRt == [set |-> FALSE, depth |-> 0]

\* The exec call a Return about to run has to end: the innermost one that
\* runs a function body (made by a Call, by invoke or by start).
RtTarget ==
    LET d == CHOOSE d \in 1..Len(ctl) :
                /\ ctl[d].kind \in {"call", "invoke", "start"}
                /\ \A h \in (d + 1)..Len(ctl) :
                      ctl[h].kind \notin {"call", "invoke", "start"}
    IN [set |-> TRUE, depth |-> d]

\* The place a Br(l) about to run inside l + 1 Blocks has to resume at: the
\* exec call that runs the (l+1)-th enclosing Block, one instruction on.
BrTargetOf(l) ==
    IF /\ Len(ctl) > l + 1
       /\ \A j \in 0..l : ctl[Len(ctl) - j].kind = "block"
    THEN [set |-> TRUE, depth |-> Len(ctl) - (l + 1),
          next |-> ctl[Len(ctl) - (l + 1)].next + 1]
    ELSE NoBr

\* what `last` records of a step: the instruction, the frame's instance, the
\* stack it ran on, the depth of ctl, the kind of the exec call that ran it,
\* the step before it, the branch target (Br only) and the exec call to end
\* (Return only)
StepInfo ==
    [op |-> CurInstr.op, instr |-> CurInstr, instance_addr |-> CurFrame.instance_addr,
     stack |-> CurStack, depth |-> Len(ctl), local |-> CurFrame.local,
     br |-> IF CurInstr.op = "Br" THEN BrTargetOf(CurInstr.l) ELSE NoBr,
     rt |-> IF CurInstr.op = "Return" THEN RtTarget ELSE NoRt,
     kind |-> TopCall.kind, prev |-> last.op, labels0 |-> TopCall.labels0,
     below |-> TopCall.below, base |-> TopCall.base, panic |-> FALSE]

RetInfo(kind) ==
    [op |-> kind, instr |-> Nop, instance_addr |-> CurFrame.instance_addr,
     stack |-> CurStack, depth |-> Len(ctl), local |-> CurFrame.local,
     br |-> last.br, rt |-> last.rt,
     kind |-> TopCall.kind, prev |-> last.op, labels0 |-> TopCall.labels0,
     below |-> TopCall.below, base |-> TopCall.base, panic |-> FALSE]

FacadeInfo(op) ==
    [op |-> op, instr |-> Nop, instance_addr |-> 0, stack |-> StackNew,
     depth |-> 0, local |-> <<>>, br |-> NoBr, rt |-> NoRt,
     kind |-> "none", prev |-> "", labels0 |-> <<>>,
     below |-> <<>>, base |-> 0, panic |-> FALSE]

\* a step that ends normally
Go(insts, st, c, p, info) ==
    /\ instances' = insts
    /\ store' = st
    /\ ctl' = c
    /\ pending' = p
    /\ last' = info
    /\ UNCHANGED <<scen, overflow_checks, phase, root, result, ninv, calls, fin,
                   fout>>

\* a step that panics
PanicStep(info) ==
    /\ phase' = "panicked"
    /\ last' = [info EXCEPT !.panic = TRUE]
    /\ UNCHANGED <<scen, overflow_checks, instances, store, root, ctl, pending,
                   result, ninv, calls, fin, fout>>

-----------------------------------------------------------------------------
(* step: one action per arm of the match *)

\* Instr::I32Const(a)
StepI32Const ==
    /\ AtInstr("I32Const")
    /\ Go(WithStack(push_value(CurStack, I32(CurInstr.v))), store, Advance(ctl),
          NoPending, StepInfo)

\* func(a, b) for the closures binary_op is given, by name:
\* |a, b| a + b, |a, b| a - b, |a, b| a
ApplyFunc(func, a, b) ==
    CASE func = "add" -> wrapping_add(a, b)
      [] func = "sub" -> a - b
      [] func = "fst" -> a

\* Instance::binary_op with T = i32: lhs is the first value popped, rhs the
\* second, and func(lhs, rhs) is pushed
binary_op(s, func) ==
    LET lhs == s.values[Len(s.values)]
        rhs == s.values[Len(s.values) - 1]
    IN push_value(DropN(s, 2), I32(ApplyFunc(func, lhs.v, rhs.v)))

\* Instance::binary_op with func = |a, b| a + b
binary_op_add(s) == binary_op(s, "add")

\* Instr::I32Add.  a + b on i32 panics on overflow when overflow checks are on.
StepI32Add ==
    /\ AtInstr("I32Add")
    /\ IF values_len(CurStack) < 2 THEN PanicStep(StepInfo)
       ELSE IF overflow_checks
               /\ add_overflows(CurStack.values[Len(CurStack.values)].v,
                                CurStack.values[Len(CurStack.values) - 1].v)
       THEN PanicStep(StepInfo)
       ELSE Go(WithStack(binary_op_add(CurStack)), store, Advance(ctl), NoPending,
               StepInfo)

\* Instr::Nop
StepNop ==
    /\ AtInstr("Nop")
    /\ Go(instances, store, Advance(ctl), NoPending, StepInfo)

\* Instr::Unreachable
StepUnreachable ==
    /\ AtInstr("Unreachable")
    /\ Go(instances, store, ctl, Trapped("Unreachable"), StepInfo)

\* Instr::Block: push the label, call exec(in1)
StepBlock ==
    /\ AtInstr("Block")
    /\ Go(WithStack(push_label(CurStack,
                [n |-> block_to_arity(CurInstance, CurInstr.bt),
                 offset |-> values_len(CurStack)])),
          store,
          Append(ctl, [ExecCall("block", CurInstr.in1, CurFrame)
                          EXCEPT !.labels0 = CurStack.labels]),
          NoPending, StepInfo)

\* Instr::Loop: call exec(in1); no label is pushed
StepLoop ==
    /\ AtInstr("Loop")
    /\ Go(instances, store,
          Append(ctl, [ExecCall("loop", CurInstr.in1, CurFrame)
                          EXCEPT !.labels0 = CurStack.labels]),
          NoPending, StepInfo)

\* Instr::If: pop c, call exec(in1) or exec(in2); no label is pushed
StepIf ==
    /\ AtInstr("If")
    /\ IF values_len(CurStack) < 1 THEN PanicStep(StepInfo)
       ELSE LET c == Last(CurStack.values).v
                insts == WithStack(pop_value(CurStack))
            IN IF c # 0
               THEN Go(insts, store,
                       Append(ctl, [ExecCall("if", CurInstr.in1, CurFrame)
                                       EXCEPT !.labels0 = CurStack.labels]),
                       NoPending, StepInfo)
               ELSE IF CurInstr.has2
               THEN Go(insts, store,
                       Append(ctl, [ExecCall("if", CurInstr.in2, CurFrame)
                                       EXCEPT !.labels0 = CurStack.labels]),
                       NoPending, StepInfo)
               ELSE Go(insts, store, Advance(ctl), NoPending, StepInfo)

\* instance.jump(l); return Ok(ExecState::Breaking(l)) on the stack s
Branch(s, l, info) ==
    LET r == jump(s, l) IN
    IF r.ok THEN Go(WithStack(r.stack), store, ctl, Breaking(l), info)
    ELSE PanicStep(info)

\* Instr::Br(l)
StepBr ==
    /\ AtInstr("Br")
    /\ Branch(CurStack, CurInstr.l, StepInfo)

\* Instr::BrIf(l)
StepBrIf ==
    /\ AtInstr("BrIf")
    /\ IF values_len(CurStack) < 1 THEN PanicStep(StepInfo)
       ELSE IF Last(CurStack.values).v # 0
       THEN Branch(pop_value(CurStack), CurInstr.l, StepInfo)
       ELSE Go(WithStack(pop_value(CurStack)), store, Advance(ctl), NoPending,
               StepInfo)

\* (i as usize) <= len for an i32 i: a negative i casts to a usize above any
\* length
usize_le(i, len) == i >= 0 /\ i <= len

\* the label BrTable branches to for the popped index i:
\* [ok, l]; ok = FALSE is the panic of indexs[i] out of bounds
br_table_target(indexs, default, i) ==
    IF usize_le(i, Len(indexs))
    THEN IF i >= Len(indexs) THEN [ok |-> FALSE, l |-> 0]
         ELSE [ok |-> TRUE, l |-> indexs[i + 1]]
    ELSE [ok |-> TRUE, l |-> default]

\* Instr::BrTable { indexs, default }
StepBrTable ==
    /\ AtInstr("BrTable")
    /\ IF values_len(CurStack) < 1 THEN PanicStep(StepInfo)
       ELSE LET t == br_table_target(CurInstr.indexs, CurInstr.default,
                                     Last(CurStack.values).v)
            IN IF t.ok THEN Branch(pop_value(CurStack), t.l, StepInfo)
               ELSE PanicStep(StepInfo)

\* Instr::Return
StepReturn ==
    /\ AtInstr("Return")
    /\ Go(instances, store, ctl, Returning, StepInfo)

\* HostEnv::call(name, stack): pops the declared parameters and pushes a
\* zero for each declared result
host_call(s, functype) ==
    PushAll(DropN(s, Len(functype.params)),
            [j \in 1..Len(functype.results) |-> I32(0)])

\* the local vector Call builds: the parameters in the order they are popped
call_locals(s, k) == PopN(s, k)

\* Instr::Call(a): store.funcs[a]
StepCall ==
    /\ AtInstr("Call")
    /\ IF CurInstr.a >= Len(store.funcs) THEN PanicStep(StepInfo)
       ELSE LET func == store.funcs[CurInstr.a + 1]
                k == Len(func.functype.params)
            IN IF values_len(CurStack) < k THEN PanicStep(StepInfo)
               ELSE IF func.kind = "HostFunc"
               THEN Go(WithStack(host_call(CurStack, func.functype)), store,
                       Advance(ctl), NoPending, StepInfo)
               ELSE Go(WithStack(DropN(CurStack, k)), store,
                       Append(ctl,
                           [ExecCall("call", func.func.body,
                                     Frame(func.instance_addr,
                                           call_locals(CurStack, k)))
                              EXCEPT !.labels0 = CurStack.labels,
                                     !.below = DropN(CurStack, k).values,
                                     !.base = values_len(
                                         WithStack(DropN(CurStack, k))
                                             [func.instance_addr + 1].stack)]),
                       NoPending, StepInfo)

\* Instr::LocalGet(l)
StepLocalGet ==
    /\ AtInstr("LocalGet")
    /\ IF CurInstr.l >= Len(CurFrame.local) THEN PanicStep(StepInfo)
       ELSE Go(WithStack(push_value(CurStack, CurFrame.local[CurInstr.l + 1])),
               store, Advance(ctl), NoPending, StepInfo)

\* Instr::GlobalGet(i)
StepGlobalGet ==
    /\ AtInstr("GlobalGet")
    /\ IF CurInstr.i >= Len(CurInstance.globaladdrs) THEN PanicStep(StepInfo)
       ELSE LET globalindex == CurInstance.globaladdrs[CurInstr.i + 1]
            IN Go(WithStack(push_value(CurStack, store.globals[globalindex + 1].value)),
                  store, Advance(ctl), NoPending, StepInfo)

\* global_set with the write going to the first global of the store
GlobalSetFirst(st, globalindex, value) ==
    [st EXCEPT !.globals[1].value = value]

\* global_set with the entry taken out of the vector and pushed back at its end
GlobalSetMoved(st, globalindex, value) ==
    [st EXCEPT !.globals =
        Append(SubSeq(@, 1, globalindex) \o SubSeq(@, globalindex + 2, Len(@)),
               [@[globalindex + 1] EXCEPT !.value = value])]

\* the store after store.globals[globalindex].value = value
global_set(st, globalindex, value) ==
    [st EXCEPT !.globals[globalindex + 1].value = value]

\* Instr::GlobalSet(i)
StepGlobalSet ==
    /\ AtInstr("GlobalSet")
    /\ IF values_len(CurStack) < 1 \/ CurInstr.i >= Len(CurInstance.globaladdrs)
       THEN PanicStep(StepInfo)
       ELSE Go(WithStack(pop_value(CurStack)),
               global_set(store, CurInstance.globaladdrs[CurInstr.i + 1],
                          Last(CurStack.values)),
               Advance(ctl), NoPending, StepInfo)

ImplementedOps ==
    {"I32Const", "I32Add", "Nop", "Unreachable", "Block", "Loop", "If", "Br",
     "BrIf", "BrTable", "Return", "Call", "LocalGet", "GlobalGet", "GlobalSet"}

\* _ => return Err(Trap::NotImplemented)
StepNotImplemented ==
    /\ phase = "running"
    /\ pending.k = "None"
    /\ TopCall.next <= Len(TopCall.instrs)
    /\ CurInstr.op \notin ImplementedOps
    /\ Go(instances, store, ctl, Trapped("NotImplemented"), StepInfo)

\* exec: next >= instrs.len() => return Ok(ExecState::Return)
ExecEnd ==
    /\ phase = "running"
    /\ pending.k = "None"
    /\ TopCall.next > Len(TopCall.instrs)
    /\ Go(instances, store, ctl, Returning,
          [RetInfo("ExecEnd") EXCEPT !.br = NoBr, !.rt = NoRt])

-----------------------------------------------------------------------------
(* What step does with the value exec returns: one action per caller *)

\* BlockReturn with exec(...) lacking the ?: a Trap of the body falls into `_ => {}`
BlockReturnNoTrap ==
    /\ AtReturn("block")
    /\ IF pending.k = "Breaking" /\ pending.l > 0
       THEN Go(instances, store, Front(ctl), Breaking(pending.l - 1),
               RetInfo("BlockReturn"))
       ELSE Go(instances, store, Advance(Front(ctl)), NoPending,
               RetInfo("BlockReturn"))

\* Instr::Block, lines 385-388: exec(...)? and the match on its state
BlockReturn ==
    /\ AtReturn("block")
    /\ IF pending.k = "Err"
       THEN Go(instances, store, Front(ctl), pending, RetInfo("BlockReturn"))
       ELSE IF pending.k = "Breaking" /\ pending.l > 0
       THEN Go(instances, store, Front(ctl), Breaking(pending.l - 1),
               RetInfo("BlockReturn"))
       ELSE Go(instances, store, Advance(Front(ctl)), NoPending,
               RetInfo("BlockReturn"))

\* Instr::Loop, lines 390-396
LoopReturn ==
    /\ AtReturn("loop")
    /\ IF pending.k = "Err"
       THEN Go(instances, store, Front(ctl), pending, RetInfo("LoopReturn"))
       ELSE IF pending.k = "Breaking" /\ pending.l > 0
       THEN Go(instances, store, Front(ctl), Breaking(pending.l - 1),
               RetInfo("LoopReturn"))
       ELSE IF pending.k = "Return"
       THEN Go(instances, store, Front(ctl), Returning, RetInfo("LoopReturn"))
       ELSE Go(instances, store, [ctl EXCEPT ![Len(ctl)].next = 1], NoPending,
               RetInfo("LoopReturn"))

\* Instr::If, lines 400-412
IfReturn ==
    /\ AtReturn("if")
    /\ IF pending.k = "Err"
       THEN Go(instances, store, Front(ctl), pending, RetInfo("IfReturn"))
       ELSE IF pending.k = "Breaking" /\ pending.l > 0
       THEN Go(instances, store, Front(ctl), Breaking(pending.l - 1),
               RetInfo("IfReturn"))
       ELSE IF pending.k = "Return"
       THEN Go(instances, store, Front(ctl), Returning, RetInfo("IfReturn"))
       ELSE Go(instances, store, Advance(Front(ctl)), NoPending,
               RetInfo("IfReturn"))

\* lines 458-468: the callee instance's values move to the caller instance
transfer_returns(insts, origin, derived) ==
    [insts EXCEPT
        ![derived + 1].stack = drained(@),
        ![origin + 1].stack = PushAll(@, get_returns(insts[derived + 1].stack))]

\* Instr::Call, InnerFunc, lines 456-468
CallReturn ==
    /\ AtReturn("call")
    /\ IF pending.k = "Err"
       THEN Go(instances, store, Front(ctl), pending, RetInfo("CallReturn"))
       ELSE LET frame == ctl[Len(ctl) - 1].frame
                new_frame == CurFrame
            IN IF frame.instance_addr # new_frame.instance_addr
               THEN Go(transfer_returns(instances, frame.instance_addr,
                                        new_frame.instance_addr),
                       store, Advance(Front(ctl)), NoPending, RetInfo("CallReturn"))
               ELSE Go(instances, store, Advance(Front(ctl)), NoPending,
                       RetInfo("CallReturn"))

-----------------------------------------------------------------------------
(* The facade: Runtime::new, start, invoke *)

NoResult == [k |-> "None", vals |-> <<>>, trap |-> "", name |-> ""]

\* Runtime::new(importer, env, module)
New ==
    /\ phase = "init"
    /\ LET r == RuntimeNew(scen.reg, scen.root) IN
       /\ phase' = CASE r.k = "Ok" -> "idle"
                     [] r.k = "Err" -> "failed"
                     [] OTHER -> "panicked"
       /\ instances' = IF r.k = "Ok" THEN r.rt.instances ELSE <<>>
       /\ store' = IF r.k = "Ok" THEN r.rt.store ELSE StoreNew
       /\ root' = r.root
       /\ result' = [k |-> r.k, vals |-> <<>>, trap |-> r.err, name |-> "new"]
       /\ last' = [FacadeInfo("New") EXCEPT !.panic = (r.k = "Panic")]
    /\ UNCHANGED <<scen, overflow_checks, ctl, pending, ninv, calls, fin, fout>>

RootInstance == instances[root + 1]

\* the values a caller of invoke passes
ParamVals == {I32(-1), I32(0), I32(1), I32(2), I32(3)}

\* the names invoke is called with: the root module's exports and one more
InvokeNames == {scen.root.exports[j].name : j \in 1..Len(scen.root.exports)}
               \cup {"nosuch"}

\* the parameter vectors invoke is called with for `name`: as many values as
\* the exported function declares
InvokeParams(name) ==
    LET e == FirstExport(RootInstance.exports, name) IN
    IF e = 0 THEN {<<>>}
    ELSE LET desc == RootInstance.exports[e].desc IN
      IF desc.k # "Func" THEN {<<>>}
      ELSE [1..Len(store.funcs[RootInstance.funcaddrs[desc.idx + 1] + 1]
                     .functype.params) -> ParamVals]

\* the facade call panics
FacadePanic(op) ==
    /\ phase' = "panicked"
    /\ last' = [FacadeInfo(op) EXCEPT !.panic = TRUE]
    /\ UNCHANGED <<instances, store, ctl, pending, result, calls>>

\* the facade call ran a host function on the root stack; ret says whether
\* get_returns follows (invoke) or not (start)
FacadeHost(op, name, func, ret) ==
    LET s == host_call(RootInstance.stack, func.functype) IN
    /\ phase' = "idle"
    /\ instances' = [instances EXCEPT ![root + 1].stack =
                        IF ret THEN drained(s) ELSE s]
    /\ result' = IF ret THEN [k |-> "Ok", vals |-> get_returns(s), trap |-> "",
                              name |-> name]
                 ELSE [k |-> "Unit", vals |-> <<>>, trap |-> "", name |-> name]
    /\ calls' = Append(calls, result')
    /\ last' = FacadeInfo(op)
    /\ UNCHANGED <<store, ctl, pending>>

\* the facade call enters exec on the body of an inner function
FacadeExec(op, kind, name, func, params) ==
    /\ phase' = "running"
    /\ ctl' = <<ExecCall(kind, func.func.body, Frame(root, params))>>
    /\ result' = [k |-> "None", vals |-> <<>>, trap |-> "", name |-> name]
    /\ last' = FacadeInfo(op)
    /\ UNCHANGED <<instances, store, pending, calls>>

\* Runtime::invoke(name, params), up to the call of exec
Invoke(name, params) ==
    /\ phase = "idle"
    /\ ninv < MaxCalls
    /\ ninv' = ninv + 1
    /\ UNCHANGED <<scen, overflow_checks, root, fin, fout>>
    /\ LET e == FirstExport(RootInstance.exports, name) IN
       IF e = 0 THEN FacadePanic("Invoke")
       ELSE LET desc == RootInstance.exports[e].desc IN
         IF desc.k # "Func" THEN FacadePanic("Invoke")
         ELSE LET func == store.funcs[RootInstance.funcaddrs[desc.idx + 1] + 1]
              IN IF func.kind = "HostFunc"
                 THEN FacadeHost("Invoke", name, func, TRUE)
                 ELSE FacadeExec("Invoke", "invoke", name, func, params)

\* Runtime::invoke, lines 328-337: exec(...)? and Ok(get_returns())
InvokeReturn ==
    /\ AtReturn("invoke")
    /\ phase' = "idle"
    /\ ctl' = <<>>
    /\ pending' = NoPending
    /\ last' = RetInfo("InvokeReturn")
    /\ IF pending.k = "Err"
       THEN /\ result' = [result EXCEPT !.k = "Err", !.trap = pending.trap]
            /\ instances' = instances
       ELSE /\ result' = [result EXCEPT !.k = "Ok",
                              !.vals = get_returns(RootInstance.stack)]
            /\ instances' = [instances EXCEPT ![root + 1].stack = drained(@)]
    /\ calls' = Append(calls, result')
    /\ UNCHANGED <<scen, overflow_checks, store, root, ninv, fin, fout>>

\* Runtime::start, up to the call of exec: store.funcs[index]
Start ==
    /\ phase = "idle"
    /\ ninv < MaxCalls
    /\ ninv' = ninv + 1
    /\ UNCHANGED <<scen, overflow_checks, root, fin, fout>>
    /\ IF ~RootInstance.start.some
       THEN /\ result' = [k |-> "Unit", vals |-> <<>>, trap |-> "", name |-> "start"]
            /\ calls' = Append(calls, result')
            /\ last' = FacadeInfo("Start")
            /\ UNCHANGED <<phase, instances, store, ctl, pending>>
       ELSE IF RootInstance.start.idx >= Len(store.funcs)
       THEN FacadePanic("Start")
       ELSE LET func == store.funcs[RootInstance.start.idx + 1]
            IN IF func.kind = "HostFunc"
               THEN FacadeHost("Start", "start", func, FALSE)
               ELSE FacadeExec("Start", "start", "start", func, <<>>)

\* Runtime::start, lines 295-304: Ok(_) => {}, Err(trap) => println!
StartReturn ==
    /\ AtReturn("start")
    /\ phase' = "idle"
    /\ ctl' = <<>>
    /\ pending' = NoPending
    /\ last' = RetInfo("StartReturn")
    /\ result' = [result EXCEPT !.k = "Unit", !.trap = pending.trap]
    /\ calls' = Append(calls, result')
    /\ UNCHANGED <<scen, overflow_checks, instances, store, root, ninv, fin, fout>>

-----------------------------------------------------------------------------
(* The modules the runtime is given: binary Module values *)

Module(types, imports, funcs, globals, start, exports) ==
    [types |-> types, imports |-> imports, funcs |-> funcs, globals |-> globals,
     start |-> start, exports |-> exports]

Func(typeidx, body) == [typeidx |-> typeidx, body |-> body]

Global(mut_, value) ==
    [type_ |-> [valtype |-> "I32", mut_ |-> mut_], value |-> value]

ImportFunc(module, name, idx) ==
    [module |-> module, name |-> name, desc |-> [k |-> "TypeIdx", idx |-> idx]]

ImportGlobal(module, name) ==
    [module |-> module, name |-> name, desc |-> [k |-> "Global", idx |-> 0]]

ExportFunc(name, idx) == [name |-> name, desc |-> [k |-> "Func", idx |-> idx]]

ExportGlobal(name, idx) == [name |-> name, desc |-> [k |-> "Global", idx |-> idx]]

NoStart == [some |-> FALSE, idx |-> 0]

StartAt(idx) == [some |-> TRUE, idx |-> idx]

\* the function types the modules below use, by type index
Types ==
    << FuncType(<<>>, <<>>),                          \* 0
       FuncType(<<>>, <<"I32">>),                     \* 1
       FuncType(<<>>, <<"I32", "I32">>),              \* 2
       FuncType(<<>>, <<"I32", "I32", "I32">>),       \* 3
       FuncType(<<"I32">>, <<"I32">>),                \* 4
       FuncType(<<"I32">>, <<>>),                     \* 5
       FuncType(<<"I32", "I32">>, <<"I32">>) >>       \* 6

\* the body of tests::branch
BranchBody ==
    << Block(BtTypeIdx(3),
         << I32Const(0),
            Block(BtTypeIdx(2),
              << I32Const(1),
                 Block(BtTypeIdx(4),
                   << I32Const(2), I32Add, I32Const(5), I32Const(6), Br(2) >>),
                 I32Const(10) >>) >>) >>

\* nested blocks and branches
ModBlocks ==
    Module(Types, <<>>,
      << Func(3, BranchBody),
         \* br 0 out of one block, with a value
         Func(2, << Block(BtValType, << I32Const(7), Br(0), I32Const(8) >>),
                    I32Const(9) >>),
         \* br 1 out of two blocks
         Func(1, << Block(BtEmpty,
                      << Block(BtEmpty, << Br(1), Nop >>), Nop >>),
                    I32Const(1) >>),
         \* br 0 in a block with a parameter, which the body has consumed
         Func(1, << I32Const(1),
                    Block(BtTypeIdx(4), << I32Const(2), I32Add, Br(0) >>),
                    Nop >>),
         \* br 0 after an inner block that ran to its end
         Func(0, << Block(BtEmpty,
                      << Block(BtValType, << I32Const(1) >>), GlobalSet(0), Br(0) >>),
                    Nop >>),
         \* br 0 with a value after an inner block that ran to its end
         Func(1, << Block(BtValType,
                      << Block(BtEmpty, << Nop >>), I32Const(5), Br(0) >>) >>) >>,
      << Global("Var", << I32Const(0) >>) >>,
      NoStart,
      << ExportFunc("branch", 0), ExportFunc("br0", 1), ExportFunc("br1", 2),
         ExportFunc("parambr", 3), ExportFunc("leakbr", 4),
         ExportFunc("leakval", 5) >>)

\* If, Loop, Return, BrIf, I32Add
ModFlow ==
    Module(Types, <<>>,
      << Func(4, << LocalGet(0),
                    IfElse(BtValType, << I32Const(1) >>, << I32Const(2) >>),
                    I32Const(3), I32Add >>),
         Func(1, << Block(BtEmpty, << Loop(BtEmpty, << Br(1) >>) >>),
                    I32Const(4) >>),
         Func(1, << Loop(BtEmpty, << Nop >>), I32Const(4) >>),
         Func(1, << Block(BtEmpty, << I32Const(1), Return, Nop >>),
                    I32Const(2) >>),
         Func(4, << Block(BtValType,
                      << I32Const(1), LocalGet(0), BrIf(0), I32Const(2), I32Add >>) >>),
         Func(1, << I32Const(2147483647), I32Const(1), I32Add >>),
         Func(1, << Block(BtEmpty, << Loop(BtEmpty, << Br(0) >>) >>),
                    I32Const(4) >>),
         Func(4, << LocalGet(0), IfThen(BtEmpty, << Nop >>), I32Const(6) >>),
         Func(1, << I32Const(MinI32), I32Const(-1), I32Add >>),
         \* return inside an if, inside a loop, inside both
         Func(4, << LocalGet(0),
                    IfElse(BtEmpty, << I32Const(1), Return >>, << Nop >>),
                    I32Const(2) >>),
         Func(1, << Loop(BtEmpty, << I32Const(3), Return >>), I32Const(4) >>),
         Func(1, << Loop(BtEmpty,
                      << I32Const(1),
                         IfThen(BtEmpty, << I32Const(5), Return >>),
                         Nop >>),
                    I32Const(6) >>) >>,
      <<>>,
      NoStart,
      << ExportFunc("ifelse", 0), ExportFunc("loopexit", 1),
         ExportFunc("loopfall", 2), ExportFunc("ret", 3), ExportFunc("brif", 4),
         ExportFunc("ovf", 5), ExportFunc("loopbr0", 6), ExportFunc("ifthen", 7),
         ExportFunc("unf", 8), ExportFunc("retif", 9), ExportFunc("retloop", 10),
         ExportFunc("retboth", 11), ExportGlobal("g", 0) >>)

\* BrTable, traps
ModTable ==
    Module(Types, <<>>,
      << Func(4, << Block(BtEmpty,
                      << Block(BtEmpty,
                           << Block(BtEmpty,
                                << LocalGet(0), BrTable(<<0, 1>>, 2) >>),
                              I32Const(10), Return >>),
                         I32Const(11), Return >>),
                    I32Const(12) >>),
         \* a trap two calls and four constructs deep, with values on the stack
         Func(1, << I32Const(1),
                    Block(BtEmpty,
                      << Loop(BtEmpty,
                           << I32Const(1),
                              IfThen(BtEmpty, << Call(3), GlobalSet(0) >>),
                              Nop >>),
                         Nop >>) >>),
         Func(1, << Block(BtValType, << I32Const(3), I32Const(1), I32Sub >>) >>),
         Func(1, << I32Const(4), Block(BtEmpty, << Unreachable, Nop >>), Nop >>),
         Func(1, << I32Const(10), I32Const(20), I32Add >>),
         \* a loop in a block that branches to its head once and is left by a
         \* return: the global counts the iterations
         Func(4, << Block(BtEmpty,
                      << Loop(BtEmpty,
                           << LocalGet(0), GlobalGet(0), I32Add,
                              IfThen(BtEmpty, << I32Const(8), Return >>),
                              I32Const(1), GlobalSet(0), Br(0) >>) >>),
                    I32Const(9) >>) >>,
      << Global("Var", << I32Const(0) >>) >>,
      NoStart,
      << ExportFunc("brtable", 0), ExportFunc("trap", 1), ExportFunc("notimpl", 2),
         ExportFunc("add", 4), ExportFunc("loopcount", 5) >>)

\* a library with one function of two parameters that returns the first
ModFirst ==
    Module(Types, <<>>, << Func(6, << LocalGet(0) >>) >>, <<>>, NoStart,
           << ExportFunc("first", 0) >>)

\* a library whose function pushes 7 and traps when its parameter is not 0
ModMaybeTrap ==
    Module(Types, <<>>,
      << Func(4, << I32Const(7), LocalGet(0),
                    IfThen(BtEmpty, << Unreachable >>) >>) >>,
      <<>>, NoStart, << ExportFunc("maybe_trap", 0) >>)

\* tests::extern_module, with two libraries and a same-instance call
ModExtern ==
    Module(Types,
      << ImportFunc("first", "first", 6), ImportFunc("mt", "maybe_trap", 4) >>,
      << Func(2, << I32Const(9), I32Const(1), I32Const(2), Call(0) >>),
         Func(4, << LocalGet(0), Call(1) >>),
         Func(6, << LocalGet(1), LocalGet(0), I32Add >>),
         Func(2, << I32Const(9), I32Const(2), I32Const(4), Call(4) >>) >>,
      <<>>, NoStart,
      << ExportFunc("main", 2), ExportFunc("call_mt", 3), ExportFunc("same", 5) >>)

\* the library of tests::global_module
ModInc ==
    Module(Types, <<>>,
      << Func(1, << GlobalGet(0), I32Const(1), I32Add, GlobalSet(0),
                    GlobalGet(0) >>) >>,
      << Global("Var", << I32Const(0) >>) >>,
      NoStart, << ExportFunc("inc", 0) >>)

\* tests::global_module, with a global and a start function of its own
ModGlobal ==
    Module(Types,
      << ImportFunc("inc", "inc", 1) >>,
      << Func(3, << Call(0), Call(0), Call(0) >>),
         Func(5, << LocalGet(0), GlobalSet(0) >>),
         Func(1, << GlobalGet(0) >>),
         Func(0, << I32Const(5), GlobalSet(0), Unreachable >>) >>,
      << Global("Var", << I32Const(100) >>) >>,
      StartAt(4),
      << ExportFunc("main", 1), ExportFunc("setg", 2), ExportFunc("getg", 3) >>)

\* a library with a global and two exported functions
ModCounter ==
    Module(Types, <<>>,
      << Func(1, << GlobalGet(0), I32Const(1), I32Add, GlobalSet(0),
                    GlobalGet(0) >>),
         Func(1, << GlobalGet(0) >>) >>,
      << Global("Var", << I32Const(0) >>) >>,
      NoStart, << ExportFunc("inc", 0), ExportFunc("get", 1) >>)

\* two function imports from one module
ModTwoImports ==
    Module(Types,
      << ImportFunc("counter", "inc", 1), ImportGlobal("counter", "g"),
         ImportFunc("counter", "get", 1) >>,
      << Func(2, << Call(0), Call(1) >>) >>,
      <<>>, NoStart, << ExportFunc("main", 2) >>)

\* tests::simple: a host start function
ModHostStart ==
    Module(Types, << ImportFunc(HOST_MODULE, "start", 0) >>, <<>>, <<>>,
           StartAt(0), << ExportFunc("start", 0) >>)

\* an import the importer does not know
ModNotFound ==
    Module(Types, << ImportFunc("nolib", "f", 0) >>, <<>>, <<>>, NoStart, <<>>)

\* a global whose initializer is not a constant instruction
ModBadConst ==
    Module(Types, <<>>, <<>>,
           << Global("Const", << I32Const(1) >>), Global("Var", << GlobalGet(0) >>) >>,
           NoStart, <<>>)

\* a global with an empty initializer
ModEmptyConst ==
    Module(Types, <<>>, <<>>, << Global("Var", <<>>) >>, NoStart, <<>>)

\* a library that imports from another library and from the host
ModMid ==
    Module(Types,
      << ImportFunc("inc", "inc", 1), ImportFunc(HOST_MODULE, "log", 5) >>,
      << Func(1, << Call(0), Call(1), Call(0) >>) >>,
      <<>>, NoStart, << ExportFunc("twice", 2) >>)

\* a root module whose import is two modules deep
ModNested ==
    Module(Types, << ImportFunc("mid", "twice", 1) >>,
      << Func(1, << Call(0) >>) >>,
      << Global("Var", << I32Const(0) >>) >>,
      NoStart, << ExportFunc("main", 1) >>)

\* a library whose own import the importer does not know
ModNeeds ==
    Module(Types, << ImportFunc("nolib", "f", 0) >>,
      << Func(0, << Nop >>) >>, <<>>, NoStart, << ExportFunc("g", 1) >>)

\* a root module whose import is known and whose import's import is not
ModNestedNotFound ==
    Module(Types, << ImportFunc("needs", "g", 0) >>, <<>>, <<>>, NoStart, <<>>)

\* a library with a global initialised from an imported global
ModBadLib ==
    Module(Types, << ImportGlobal("consts", "g") >>,
      << Func(0, << Nop >>) >>,
      << Global("Var", << GlobalGet(0) >>) >>,
      NoStart, << ExportFunc("f", 0) >>)

\* a root module that imports from that library and then from a module the
\* importer does not know
ModTwoFaults ==
    Module(Types, << ImportFunc("badlib", "f", 0), ImportFunc("nolib", "f", 0) >>,
           <<>>, <<>>, NoStart, <<>>)

\* a root module whose start function is its own function 1, after an import
\* from a library of two functions
ModStartLib ==
    Module(Types, << ImportFunc("counter", "get", 1) >>,
      << Func(0, << I32Const(5), GlobalSet(0) >>),
         Func(1, << GlobalGet(0) >>) >>,
      << Global("Var", << I32Const(0) >>) >>,
      StartAt(1), << ExportFunc("getg", 2) >>)

\* callers that hold a label while they call a function of their own
\* instance, and the callees: one per way of leaving a function body
ModCallLabels ==
    Module(Types, <<>>,
      << Func(1, << I32Const(1) >>),                                  \* 0
         Func(1, << Block(BtEmpty, << Nop >>), I32Const(1) >>),       \* 1
         Func(1, << Block(BtEmpty, << Br(0) >>), I32Const(1) >>),     \* 2
         Func(1, << I32Const(1), Br(0) >>),                           \* 3
         Func(1, << I32Const(1), Return >>),                          \* 4
         Func(1, << I32Const(1), Block(BtEmpty, << Return >>) >>),    \* 5
         Func(2, << Block(BtValType, << Call(0), I32Const(7), Br(0) >>),
                    I32Const(9) >>),
         Func(2, << Block(BtValType, << Call(1), I32Const(7), Br(0) >>),
                    I32Const(9) >>),
         Func(2, << Block(BtValType, << Call(2), I32Const(7), Br(0) >>),
                    I32Const(9) >>),
         Func(2, << Block(BtValType, << Call(3), I32Const(7), Br(0) >>),
                    I32Const(9) >>),
         Func(2, << Block(BtValType, << Call(4), I32Const(7), Br(0) >>),
                    I32Const(9) >>),
         Func(2, << Block(BtValType, << Call(5), I32Const(7), Br(0) >>),
                    I32Const(9) >>) >>,
      <<>>, NoStart,
      << ExportFunc("cplain", 6), ExportFunc("cblock", 7),
         ExportFunc("cbrblock", 8), ExportFunc("ctopbr", 9),
         ExportFunc("creturn", 10), ExportFunc("cblockreturn", 11) >>)

\* a root module that calls its host import
ModHostCall ==
    Module(Types, << ImportFunc(HOST_MODULE, "log", 5) >>,
      << Func(1, << I32Const(3), Call(0), I32Const(4) >>) >>,
      <<>>, NoStart, << ExportFunc("main", 1) >>)

\* a root module that calls its two imports: the second function of a
\* library of two functions, and a host function
ModCallGet ==
    Module(Types,
      << ImportFunc("counter", "get", 1), ImportFunc(HOST_MODULE, "log", 5) >>,
      << Func(1, << Call(0), Call(1), I32Const(4) >>) >>,
      <<>>, NoStart, << ExportFunc("main", 2) >>)

\* the Importer's registry (DefaultImporter::add_module)
Registry ==
    [n \in {"first", "mt", "inc", "counter", "mid", "needs", "badlib"} |->
        CASE n = "first" -> ModFirst
          [] n = "mt" -> ModMaybeTrap
          [] n = "inc" -> ModInc
          [] n = "counter" -> ModCounter
          [] n = "mid" -> ModMid
          [] n = "needs" -> ModNeeds
          [] n = "badlib" -> ModBadLib]

Scenario(name, module) == [name |-> name, root |-> module, reg |-> Registry]

Scenarios ==
    { Scenario("blocks", ModBlocks), Scenario("flow", ModFlow),
      Scenario("table", ModTable), Scenario("extern", ModExtern),
      Scenario("global", ModGlobal), Scenario("twoimports", ModTwoImports),
      Scenario("hoststart", ModHostStart), Scenario("notfound", ModNotFound),
      Scenario("badconst", ModBadConst), Scenario("emptyconst", ModEmptyConst),
      Scenario("nested", ModNested), Scenario("nestednotfound", ModNestedNotFound),
      Scenario("twofaults", ModTwoFaults), Scenario("startlib", ModStartLib),
      Scenario("hostcall", ModHostCall), Scenario("callget", ModCallGet),
      Scenario("calllabels", ModCallLabels) }

-----------------------------------------------------------------------------
(* The specification of the runtime *)

NoFn == [kind |-> "none"]

Init ==
    /\ scen \in Scenarios
    /\ overflow_checks \in BOOLEAN
    /\ phase = "init"
    /\ instances = <<>>
    /\ store = StoreNew
    /\ root = 0
    /\ ctl = <<>>
    /\ pending = NoPending
    /\ result = NoResult
    /\ ninv = 0
    /\ calls = <<>>
    /\ last = FacadeInfo("Init")
    /\ fin = NoFn
    /\ fout = NoFn

\* the embedder calls invoke with some name and parameters
InvokeAny ==
    /\ phase = "idle"
    /\ \E name \in InvokeNames : \E params \in InvokeParams(name) :
          Invoke(name, params)

Next ==
    \/ New
    \/ InvokeAny
    \/ InvokeReturn
    \/ Start
    \/ StartReturn
    \/ StepI32Const
    \/ StepI32Add
    \/ StepNop
    \/ StepUnreachable
    \/ StepBlock
    \/ StepLoop
    \/ StepIf
    \/ StepBr
    \/ StepBrIf
    \/ StepBrTable
    \/ StepReturn
    \/ StepCall
    \/ StepLocalGet
    \/ StepGlobalGet
    \/ StepGlobalSet
    \/ StepNotImplemented
    \/ ExecEnd
    \/ BlockReturn
    \/ LoopReturn
    \/ IfReturn
    \/ CallReturn

Spec == Init /\ [][Next]_vars

\* what a call of start or invoke does once it has entered exec: the steps of
\* the interpreter and the returns of exec to its callers
ExecStep ==
    \/ StepI32Const
    \/ StepI32Add
    \/ StepNop
    \/ StepUnreachable
    \/ StepBlock
    \/ StepLoop
    \/ StepIf
    \/ StepBr
    \/ StepBrIf
    \/ StepBrTable
    \/ StepReturn
    \/ StepCall
    \/ StepLocalGet
    \/ StepGlobalGet
    \/ StepGlobalSet
    \/ StepNotImplemented
    \/ ExecEnd
    \/ BlockReturn
    \/ LoopReturn
    \/ IfReturn
    \/ CallReturn
    \/ InvokeReturn
    \/ StartReturn

\* start and invoke run on the calling thread until they return: a call that
\* can take a step takes it.  The embedder is not bound to call again.
SpecLive == Init /\ [][Next]_vars /\ WF_vars(ExecStep)

-----------------------------------------------------------------------------
(* jump as a function: the stacks it is applied to *)

JumpVals == {I32(1), I32(2)}

\* labels of arity 0..2 at offsets 0..2
JumpLabels == [n : 0..2, offset : 0..2]

JumpInputs ==
    [kind : {"jump"},
     stack : [values : SeqsUpTo(JumpVals, MaxJumpVals),
              labels : SeqsUpTo(JumpLabels, MaxJumpLabels)],
     l : 0..MaxJumpLabels]

InitPure(inputs) ==
    /\ scen = Scenario("none", ModNotFound)
    /\ overflow_checks = TRUE
    /\ phase = "off"
    /\ instances = <<>>
    /\ store = StoreNew
    /\ root = 0
    /\ ctl = <<>>
    /\ pending = NoPending
    /\ result = NoResult
    /\ ninv = 0
    /\ calls = <<>>
    /\ last = FacadeInfo("Init")
    /\ fin \in inputs
    /\ fout = NoFn

InitJump == InitPure(JumpInputs)

JumpApply ==
    /\ fin.kind = "jump"
    /\ fout.kind = "none"
    /\ fout' = [kind |-> "jump", r |-> jump(fin.stack, fin.l)]
    /\ UNCHANGED <<scen, overflow_checks, phase, instances, store, root, ctl,
                   pending, result, ninv, calls, last, fin>>

SpecJump == InitJump /\ [][JumpApply]_vars

\* the label jump(l) is applied to, and the stack it returns
JumpLabel == th_label(fin.stack, fin.l)

\* the stack has l + 1 labels and at least offset + n values
JumpPre ==
    /\ fin.kind = "jump"
    /\ Len(fin.stack.labels) >= fin.l + 1
    /\ values_len(fin.stack) >= JumpLabel.offset + JumpLabel.n

\* C1: on a stack with at least l + 1 labels whose l-th label from the top has
\* arity n and offset o, and with at least o + n values, jump(l) ends
\* normally and leaves o + n values: the o values below the offset unchanged,
\* above them the n values that were on top, in the same order; and it removes
\* exactly the l + 1 innermost labels.
C1_JumpEffect ==
    (fout.kind = "jump" /\ JumpPre) =>
        LET n == JumpLabel.n
            o == JumpLabel.offset
            before == fin.stack
            after == fout.r.stack
        IN /\ fout.r.ok
           /\ values_len(after) = o + n
           /\ SubSeq(after.values, o + 1, o + n)
                = SubSeq(before.values, values_len(before) - n + 1,
                         values_len(before))
           /\ SubSeq(after.values, 1, o) = SubSeq(before.values, 1, o)
           /\ after.labels
                = SubSeq(before.labels, 1, Len(before.labels) - (fin.l + 1))

\* jump(1) has run on three values and a label of arity 2 at offset 0: two
\* different values are kept and one is discarded
C1_Witness ==
    /\ fout.kind = "jump"
    /\ JumpPre
    /\ fin.l = 1
    /\ JumpLabel = [n |-> 2, offset |-> 0]
    /\ fin.stack.values = <<I32(1), I32(1), I32(2)>>
    /\ fout.r.stack.values = <<I32(1), I32(2)>>

-----------------------------------------------------------------------------
(* eval_const as a function: the initializer expressions it is applied to *)

ConstInstrs ==
    {I32Const(1), I32Const(2), I64Const(3), F32Const(4), F64Const(5), Nop,
     GlobalGet(0), I32Add}

ConstInputs == [kind : {"const"}, expr : SeqsUpTo(ConstInstrs, MaxExprLen)]

InitConst == InitPure(ConstInputs)

ConstApply ==
    /\ fin.kind = "const"
    /\ fout.kind = "none"
    /\ fout' = [kind |-> "const", r |-> eval_const(fin.expr)]
    /\ UNCHANGED <<scen, overflow_checks, phase, instances, store, root, ctl,
                   pending, result, ninv, calls, last, fin>>

SpecConst == InitConst /\ [][ConstApply]_vars

\* the four constant opcodes
ConstOps == {"I32Const", "I64Const", "F32Const", "F64Const"}

\* the Value a constant instruction denotes: same tag, same payload
ConstValue(i) ==
    CASE i.op = "I32Const" -> [tag |-> "I32", v |-> i.v]
      [] i.op = "I64Const" -> [tag |-> "I64", v |-> i.v]
      [] i.op = "F32Const" -> [tag |-> "F32", v |-> i.v]
      [] i.op = "F64Const" -> [tag |-> "F64", v |-> i.v]

\* C10: eval_const returns Ok(value) exactly when the expression is one
\* instruction and that instruction is I32Const, I64Const, F32Const or
\* F64Const, the value having its tag and payload; for every other
\* expression (another opcode, no instruction, more than one instruction) it
\* returns Err(ConstantExpression).
C10_EvalConstExact ==
    fout.kind = "const" =>
        IF Len(fin.expr) = 1 /\ fin.expr[1].op \in ConstOps
        THEN fout.r = [k |-> "Ok", value |-> ConstValue(fin.expr[1])]
        ELSE fout.r.k = "Err"

-----------------------------------------------------------------------------
(* binary_op as a function: the closures and the stacks it is applied to *)

\* the closures binary_op is given
BinOpFuncs == {"add", "sub", "fst"}

BinOpVals == {I32(-1), I32(0), I32(2), I32(5)}

BinOpInputs ==
    [kind : {"binop"},
     stack : [values : SeqsUpTo(BinOpVals, MaxBinOpVals), labels : {<<>>}],
     f : BinOpFuncs]

\* instance.binary_op(func) on the stack s: [ok, stack]; ok = FALSE is the
\* panic of pop_value on an empty value region
binary_op_call(s, f) ==
    IF values_len(s) < 2 THEN [ok |-> FALSE, stack |-> s]
    ELSE [ok |-> TRUE, stack |-> binary_op(s, f)]

InitBinOp == InitPure(BinOpInputs)

BinOpApply ==
    /\ fin.kind = "binop"
    /\ fout.kind = "none"
    /\ fout' = [kind |-> "binop", r |-> binary_op_call(fin.stack, fin.f)]
    /\ UNCHANGED <<scen, overflow_checks, phase, instances, store, root, ctl,
                   pending, result, ninv, calls, last, fin>>

SpecBinOp == InitBinOp /\ [][BinOpApply]_vars

\* C21: binary_op pops the right operand first (the value on top) and the
\* left operand second (the value beneath it) and pushes func(left, right):
\* on a stack ending in x, y it replaces x and y by func(x, y), for every
\* closure, commutative or not.
C21_BinaryOpOrder ==
    (fout.kind = "binop" /\ values_len(fin.stack) >= 2) =>
        LET vals == fin.stack.values
            x == vals[Len(vals) - 1]
            y == vals[Len(vals)]
        IN /\ fout.r.ok
           /\ fout.r.stack.values
                = Append(SubSeq(vals, 1, Len(vals) - 2),
                         I32(ApplyFunc(fin.f, x.v, y.v)))

-----------------------------------------------------------------------------
(* Properties of the runtime (specification Spec) *)

\* C2: when Br(l) runs inside l + 1 nested Blocks of one function, the Br
\* does not fail, the exec calls of those blocks return Breaking(l),
\* Breaking(l - 1), ..., Breaking(0) without running another instruction, and
\* execution resumes in the exec call around the (l+1)-th Block at the
\* instruction after that Block.
C2_BrResumesAfterBlock ==
    last.br.set =>
        /\ ~last.panic
        /\ phase = "running"
        /\ Len(ctl) >= last.br.depth
        /\ IF Len(ctl) = last.br.depth
           THEN pending.k = "None" /\ TopCall.next = last.br.next
           ELSE pending = Breaking(Len(ctl) - last.br.depth - 1)

\* a Call to an inner function of another instance has just returned
CrossCallReturned ==
    /\ last.op = "CallReturn"
    /\ phase = "running"
    /\ pending.k = "None"
    /\ last.instance_addr # CurFrame.instance_addr

\* C3: when a Call from instance A to an inner function of another instance
\* B returns, A's values are the values A held under the parameters followed
\* by the values the callee pushed during the call, in their order, and B
\* holds no value.
C3_CrossCallFrame ==
    CrossCallReturned =>
        /\ CurStack.values
             = last.below \o SubSeq(last.stack.values, last.base + 1,
                                    Len(last.stack.values))
        /\ instances[last.instance_addr + 1].stack.values = <<>>

\* the store address of global i of the instance the current frame runs in
CurGlobalAddr == CurInstance.globaladdrs[CurInstr.i + 1]

\* the store's globals change only by a GlobalSet(i), which writes the popped
\* value at the address of global i of the current instance and nothing else
GlobalsWrittenBySetOnly ==
    store'.globals # store.globals =>
        /\ AtInstr("GlobalSet")
        /\ store'.globals =
              [store.globals EXCEPT ![CurGlobalAddr + 1].value = Last(CurStack.values)]

\* a GlobalGet(i) pushes the value the store holds at the address of global i
\* of the current instance
GlobalGetReadsStore ==
    (AtInstr("GlobalGet") /\ phase' = "running") =>
        Last(instances'[CurFrame.instance_addr + 1].stack.values)
            = store.globals[CurGlobalAddr + 1].value

\* the number of calls of `name` among the first j - 1 facade calls
EarlierCalls(name, j) == Cardinality({h \in 1..(j - 1) : calls[h].name = name})

\* the m-th invoke (m from 0) of a main that calls the imported inc three
\* times returns 3m + 1, 3m + 2, 3m + 3
IncYieldsSuccessors ==
    scen.name = "global" =>
        \A j \in 1..Len(calls) :
            calls[j].name = "main" =>
                LET m == EarlierCalls("main", j) IN
                /\ calls[j].k = "Ok"
                /\ calls[j].vals = <<I32(3 * m + 1), I32(3 * m + 2), I32(3 * m + 3)>>

\* C4: a value written by GlobalSet(i) stays at its store address until the
\* next GlobalSet on that address: between instantiation and the end of the
\* run the store's globals change only by a GlobalSet, which writes one
\* address; every GlobalGet(i), in whichever call or invoke it runs, pushes
\* the value at the address of global i; and successive cross-instance calls
\* of a function that increments a global initialised to 0 yield 1, 2, 3, ...
\* across invocations.
C4_GlobalPersistence ==
    /\ [][phase # "init" => GlobalsWrittenBySetOnly /\ GlobalGetReadsStore]_vars
    /\ []IncYieldsSuccessors

\* main has been invoked twice and its second invocation returned 4, 5, 6
C4_Witness ==
    /\ scen.name = "global"
    /\ Len(calls) = 2
    /\ calls[1].name = "main"
    /\ calls[2].name = "main"
    /\ calls[2].vals = <<I32(4), I32(5), I32(6)>>

\* invoke has returned, with Ok or with a Trap, and nothing has run since
InvokeReturned ==
    /\ phase = "idle"
    /\ last.op \in {"Invoke", "InvokeReturn"}
    /\ result.k \in {"Ok", "Err"}

\* C5: after invoke returns, with Ok or with a Trap, the root instance holds
\* no value.
C5_RootEmptyAfterInvoke ==
    InvokeReturned => RootInstance.stack.values = <<>>

\* an instruction that traps: the Trap is raised and nothing else changes
TrapRaised ==
    /\ AtInstr("Unreachable") => pending' = Trapped("Unreachable")
    /\ (/\ phase = "running"
        /\ pending.k = "None"
        /\ TopCall.next <= Len(TopCall.instrs)
        /\ CurInstr.op \notin ImplementedOps) => pending' = Trapped("NotImplemented")
    /\ (pending.k = "None" /\ pending'.k = "Err") =>
            /\ ctl' = ctl
            /\ instances' = instances
            /\ store' = store

\* a raised Trap is handed from each exec call to its caller unchanged, no
\* instruction runs, and invoke returns it as Err(trap)
TrapUnwinds ==
    (phase = "running" /\ pending.k = "Err") =>
        /\ instances' = instances
        /\ store' = store
        /\ IF Len(ctl) > 1
           THEN /\ ctl' = Front(ctl)
                /\ pending' = pending
                /\ phase' = "running"
           ELSE /\ phase' = "idle"
                /\ TopCall.kind = "invoke" =>
                       /\ result'.k = "Err"
                       /\ result'.trap = pending.trap

\* C6: when Unreachable is executed, at any depth of Blocks, Loops, Ifs and
\* Calls, no further instruction of the invocation runs and invoke returns
\* Err(Unreachable); an opcode step has no arm for ends the invocation with
\* Err(NotImplemented) the same way.
C6_TrapAbortsInvoke == [][TrapRaised /\ TrapUnwinds]_vars

\* invoke has returned Err(Unreachable) for a trap raised under a Block, a
\* Loop, an If and a Call
C6_Witness ==
    /\ scen.name = "table"
    /\ phase = "idle"
    /\ last.op = "InvokeReturn"
    /\ result.name = "trap"
    /\ result.k = "Err"
    /\ result.trap = "Unreachable"

\* the index a BrTable step popped
BrTableIndex == Last(last.stack.values).v

\* C7: BrTable { indexs, default } pops i and branches to indexs[i] when
\* 0 <= i < len(indexs) and to default for every other i, i = len(indexs)
\* and negative i included; it fails for no i.
C7_BrTableTotal ==
    (last.op = "BrTable" /\ values_len(last.stack) >= 1) =>
        /\ ~last.panic
        /\ pending = Breaking(IF BrTableIndex >= 0
                                 /\ BrTableIndex < Len(last.instr.indexs)
                              THEN last.instr.indexs[BrTableIndex + 1]
                              ELSE last.instr.default)

\* a Call has just built the frame of an inner function
CalleeEntered ==
    /\ last.op = "Call"
    /\ ~last.panic
    /\ Len(ctl) = last.depth + 1

\* C8: when Call enters an inner function with k parameters and the caller's
\* stack held the arguments a0 .. a(k-1), a(k-1) on top, the callee's frame
\* has local[j] = aj for every j: local is the top k values of the caller's
\* stack in stack order.
C8_LocalsInParamOrder ==
    CalleeEntered =>
        CurFrame.local
            = SubSeq(last.stack.values,
                     values_len(last.stack) - Len(CurFrame.local) + 1,
                     values_len(last.stack))

\* the function imports of the root module that name an external module, in
\* the order new_instance resolves them; the j-th is bound to funcaddrs[j]
IsExternFuncImport(import) ==
    import.desc.k = "TypeIdx" /\ import.module # HOST_MODULE

IsFuncImport(import) == import.desc.k = "TypeIdx"

RootFuncImports == SelectSeq(scen.root.imports, IsFuncImport)

\* the module names the function imports of a module reference
ImportNames(module) ==
    {module.imports[j].module :
        j \in {h \in 1..Len(module.imports) : IsExternFuncImport(module.imports[h])}}

\* names, and the names the modules of that name reference, and so on
RECURSIVE ImportClosure(_)
ImportClosure(names) ==
    LET more == names \cup UNION {ImportNames(scen.reg[n]) :
                                     n \in names \cap DOMAIN scen.reg}
    IN IF more = names THEN names ELSE ImportClosure(more)

\* the module names the root module references, directly or through the
\* modules it imports from
ImportedModules == ImportClosure(ImportNames(scen.root))

\* the instance the j-th function import of the root module was resolved in
ImportInstance(j) == store.funcs[RootInstance.funcaddrs[j] + 1].instance_addr

\* C9: an external module is instantiated once: function imports that name
\* the same module are resolved in one and the same Instance, and the runtime
\* holds one Instance per module name referenced, plus the root.
C9_OneInstancePerModule ==
    phase \in {"idle", "running"} =>
        /\ \A a, b \in 1..Len(RootFuncImports) :
              (/\ IsExternFuncImport(RootFuncImports[a])
               /\ IsExternFuncImport(RootFuncImports[b])
               /\ RootFuncImports[a].module = RootFuncImports[b].module)
                  => ImportInstance(a) = ImportInstance(b)
        /\ Len(instances) = Cardinality(ImportedModules) + 1

\* one step of a constructed Runtime leaves every function entry as it is and
\* every global entry at its address with its type; a global's value changes
\* only in a GlobalSet step, and only at the address that GlobalSet(i) names
StoreStableStep ==
    phase \in {"idle", "running"} =>
        /\ store'.funcs = store.funcs
        /\ Len(store'.globals) = Len(store.globals)
        /\ \A a \in 1..Len(store.globals) :
              /\ store'.globals[a].globaltype = store.globals[a].globaltype
              /\ store'.globals[a].value # store.globals[a].value =>
                    /\ AtInstr("GlobalSet")
                    /\ a = CurGlobalAddr + 1

\* C11: after Runtime::new succeeds, across start and invoke calls,
\* store.funcs and store.globals never shrink and are never reordered, every
\* function entry stays identical (kind, functype, instance_addr, body), and a
\* global entry changes only in its value and only by GlobalSet.
C11_StoreStable == [][StoreStableStep]_vars

\* start and an invoke have run on a store of five functions and two
\* globals, and both globals have been written
C11_Witness ==
    /\ scen.name = "global"
    /\ phase = "idle"
    /\ Len(calls) = 2
    /\ Len(store.funcs) = 5
    /\ store.globals[1].value = I32(3)
    /\ store.globals[2].value = I32(5)

\* C12: in every state of a Runtime that Runtime::new returned, also one
\* built from imports that are themselves modules with imports, every address
\* in every Instance's funcaddrs is less than len(store.funcs) and every
\* address in every Instance's globaladdrs is less than len(store.globals).
C12_AddrsInStore ==
    \A k \in 1..Len(instances) :
        /\ \A j \in 1..Len(instances[k].funcaddrs) :
              /\ instances[k].funcaddrs[j] >= 0
              /\ instances[k].funcaddrs[j] < Len(store.funcs)
        /\ \A j \in 1..Len(instances[k].globaladdrs) :
              /\ instances[k].globaladdrs[j] >= 0
              /\ instances[k].globaladdrs[j] < Len(store.globals)

\* a Runtime of three Instances, the root importing from a module that
\* imports from a module and from the host, has served an invoke
C12_Witness ==
    /\ scen.name = "nested"
    /\ phase = "idle"
    /\ Len(instances) = 3
    /\ Len(instances[2].funcaddrs) = 3
    /\ Len(instances[3].globaladdrs) = 1
    /\ Len(calls) >= 1

\* the modules a Runtime can be built from: the root and the importer's
AllModules == {scen.root} \cup {scen.reg[n] : n \in DOMAIN scen.reg}

\* the module an Instance was created from
ModuleOf(instance) ==
    CHOOSE module \in AllModules :
        /\ module.exports = instance.exports
        /\ module.types = instance.types
        /\ module.start = instance.start

\* the number of function imports of a module: its defined functions follow
\* them in funcaddrs
NumFuncImports(module) == Len(SelectSeq(module.imports, IsFuncImport))

\* C13: in a Runtime that Runtime::new returned, for any tree of imported
\* modules, every InnerFunc of the store has an instance_addr that indexes
\* instances and names the Instance created from the module that defined the
\* function: the function's address is in that Instance's funcaddrs, at the
\* place of the defined function it was allocated from.
C13_InstanceAddrOfDefiner ==
    Len(instances) > 0 =>
        \A a \in 1..Len(store.funcs) :
            store.funcs[a].kind = "InnerFunc" =>
                /\ store.funcs[a].instance_addr >= 0
                /\ store.funcs[a].instance_addr < Len(instances)
                /\ LET instance == instances[store.funcs[a].instance_addr + 1]
                       module == ModuleOf(instance)
                       k == NumFuncImports(module)
                   IN \E j \in 1..Len(module.funcs) :
                         /\ k + j <= Len(instance.funcaddrs)
                         /\ instance.funcaddrs[k + j] = a - 1
                         /\ store.funcs[a].func = module.funcs[j]
                         /\ store.funcs[a].functype
                              = module.types[module.funcs[j].typeidx + 1]

\* the functions of a root, of the module it imports from and of the module
\* that one imports from are bound to three different Instances
C13_Witness ==
    /\ scen.name = "nested"
    /\ phase = "idle"
    /\ Len(instances) = 3
    /\ store.funcs[1].instance_addr = 0
    /\ store.funcs[3].instance_addr = 1
    /\ store.funcs[4].instance_addr = 2

\* the step is a call of start()
StartCalled ==
    /\ phase = "idle"
    /\ ninv' = ninv + 1
    /\ last'.op = "Start"

\* the function the root module declared as its start function
DeclaredStart == store.funcs[RootInstance.funcaddrs[RootInstance.start.idx + 1] + 1]

\* what a call of start() does
StartRunsDeclared ==
    StartCalled =>
        IF ~RootInstance.start.some
        THEN /\ store' = store
             /\ instances' = instances
             /\ phase' = "idle"
        ELSE /\ ~last'.panic
             /\ store' = store
             /\ IF DeclaredStart.kind = "HostFunc"
                THEN /\ phase' = "idle"
                     /\ result'.k = "Unit"
                     /\ instances' = [instances EXCEPT ![root + 1].stack =
                                         host_call(@, DeclaredStart.functype)]
                ELSE /\ phase' = "running"
                     /\ instances' = instances
                     /\ ctl' = << ExecCall("start", DeclaredStart.func.body,
                                          Frame(root, <<>>)) >>

\* C14: start() calls the function the root module declared as its start
\* function, the one at store address instances[root].funcaddrs[start], once:
\* a host start function is handed to the host environment and start()
\* returns without trap, an inner one is executed on an empty frame of the
\* root; when no start function is declared start() changes neither the
\* store nor any instance.
C14_StartRunsDeclared == [][StartRunsDeclared]_vars

\* a + b reduced modulo 2^32 into -2^31 .. 2^31 - 1
WrapSum(a, b) ==
    IF b >= 0
    THEN IF a <= MaxI32 - b THEN a + b
         ELSE (a - MaxI32 - 1) + (b - MaxI32 - 1)
    ELSE IF a >= MinI32 - b THEN a + b
         ELSE (a + MaxI32 + 1) + (b + MaxI32 + 1)

\* the body of the root's function exported as `name`, <<>> when it has none
ExportedBody(name) ==
    LET e == FirstExport(RootInstance.exports, name) IN
    IF e = 0 \/ RootInstance.exports[e].desc.k # "Func" THEN <<>>
    ELSE LET f == store.funcs[RootInstance.funcaddrs[RootInstance.exports[e].desc.idx + 1] + 1]
         IN IF f.kind = "InnerFunc" THEN f.func.body ELSE <<>>

\* the body is i32.const x; i32.const y; i32.add
IsConstAdd(body) ==
    /\ Len(body) = 3
    /\ body[1].op = "I32Const"
    /\ body[2].op = "I32Const"
    /\ body[3].op = "I32Add"

\* C15: I32Add pops two i32 values a and b and pushes a + b reduced modulo
\* 2^32 into the signed 32-bit range, for every pair, also when the sum
\* overflows, and never fails; invoke of a function whose body is
\* i32.const x; i32.const y; i32.add returns exactly [I32(x + y wrapped)].
C15_I32AddWraps ==
    /\ (last.op = "I32Add" /\ values_len(last.stack) >= 2) =>
          /\ ~last.panic
          /\ instances[last.instance_addr + 1].stack
               = push_value(DropN(last.stack, 2),
                            I32(WrapSum(last.stack.values[values_len(last.stack)].v,
                                        last.stack.values[values_len(last.stack) - 1].v)))
    /\ \A j \in 1..Len(calls) :
          IsConstAdd(ExportedBody(calls[j].name)) =>
              /\ calls[j].k = "Ok"
              /\ calls[j].vals
                   = << I32(WrapSum(ExportedBody(calls[j].name)[1].v,
                                    ExportedBody(calls[j].name)[2].v)) >>

\* the module, or a module reached through its imports, declares a function
\* import whose module name is not __env and is unknown to the importer
RECURSIVE Unresolved(_)
Unresolved(module) ==
    \E j \in 1..Len(module.imports) :
        /\ IsExternFuncImport(module.imports[j])
        /\ \/ module.imports[j].module \notin DOMAIN scen.reg
           \/ Unresolved(scen.reg[module.imports[j].module])

\* Runtime::new returned Err(ModuleNotFound) and there is no Runtime
NewModuleNotFound ==
    /\ phase = "failed"
    /\ result = [k |-> "Err", vals |-> <<>>, trap |-> "ModuleNotFound", name |-> "new"]
    /\ instances = <<>>

\* every __env import of every Instance's module is bound to a HostFunc that
\* carries the import's type and name
HostImportsAllocated ==
    \A k \in 1..Len(instances) :
        LET imports == SelectSeq(ModuleOf(instances[k]).imports, IsFuncImport) IN
        \A j \in 1..Len(imports) :
            imports[j].module = HOST_MODULE =>
                store.funcs[instances[k].funcaddrs[j] + 1]
                    = HostFunc(instances[k].types[imports[j].desc.idx + 1],
                               imports[j].name)

\* C16 as stated: Runtime::new returns Err(ModuleNotFound) and produces no
\* Runtime whenever the root module or a module reached through its imports
\* declares a function import from a module other than __env that the
\* importer does not know; an __env import allocates a HostFunc with the
\* import name and the importer is not asked for it.
C16_ModuleNotFoundWhenever ==
    phase # "init" =>
        /\ Unresolved(scen.root) => NewModuleNotFound
        /\ HostImportsAllocated

\* the first failure of instantiation, taking a module's function imports in
\* declaration order, each imported module in full before the next import,
\* and the module's globals after its imports: "none" when there is none
RECURSIVE FirstFault(_)
RECURSIVE ImportFault(_, _)
GlobalFault(module) ==
    IF \E j \in 1..Len(module.globals) :
          Len(module.globals[j].value) = 0 \/ module.globals[j].value[1].op \notin ConstOps
    THEN LET j == CHOOSE j \in 1..Len(module.globals) :
                    /\ Len(module.globals[j].value) = 0
                       \/ module.globals[j].value[1].op \notin ConstOps
                    /\ \A h \in 1..(j - 1) :
                          /\ Len(module.globals[h].value) > 0
                          /\ module.globals[h].value[1].op \in ConstOps
         IN IF Len(module.globals[j].value) = 0 THEN "Panic" ELSE "ConstantExpression"
    ELSE "none"

ImportFault(module, i) ==
    IF i > Len(module.imports) THEN GlobalFault(module)
    ELSE IF ~IsExternFuncImport(module.imports[i]) THEN ImportFault(module, i + 1)
    ELSE IF module.imports[i].module \notin DOMAIN scen.reg THEN "ModuleNotFound"
    ELSE LET lib == scen.reg[module.imports[i].module]
             f == FirstFault(lib)
             e == FirstExport(lib.exports, module.imports[i].name)
         IN IF f # "none" THEN f
            ELSE IF e = 0 \/ lib.exports[e].desc.k # "Func" THEN "Panic"
            ELSE ImportFault(module, i + 1)

FirstFault(module) == ImportFault(module, 1)

\* C16 as amended: Runtime::new returns Err(ModuleNotFound) and produces no
\* Runtime when the first failure of instantiation is a function import from
\* a module other than __env that the importer does not know, in the root
\* module or in a module reached through its imports; it returns a Runtime
\* when there is no failure, the importer knowing no module __env; and every
\* __env import is bound to a HostFunc with the import's type and name.
C16_ModuleNotFoundFirst ==
    phase # "init" =>
        /\ FirstFault(scen.root) = "ModuleNotFound" => NewModuleNotFound
        /\ FirstFault(scen.root) = "none" => Len(instances) > 0
        /\ HostImportsAllocated

\* Runtime::new has returned Err(ModuleNotFound) for an import of a module
\* the root imports from
C16_Witness ==
    /\ scen.name = "nestednotfound"
    /\ ImportNames(scen.root) \subseteq DOMAIN scen.reg
    /\ FirstFault(scen.root) = "ModuleNotFound"
    /\ NewModuleNotFound

\* the exec call of a Block's body has reached the end of the body and the
\* Block arm has handled its return
BlockRanToEnd ==
    /\ last.op = "BlockReturn"
    /\ last.prev = "ExecEnd"

\* C17: when a Block's body runs to its end without branching, the label
\* pushed on entry to the Block is popped: execution continues after the
\* Block with the label region it had before the Block, same depth and same
\* labels, so that a later Br(l) resolves against the enclosing constructs.
C17_BlockPopsLabel ==
    BlockRanToEnd =>
        /\ phase = "running"
        /\ pending.k = "None"
        /\ CurStack.labels = last.labels0

\* C18: an explicit Return executed inside any nesting of Block, If and Loop
\* constructs ends the current function: from the Return until the exec call
\* of the function body has returned to its call site (or to invoke), every
\* exec call on the way returns ExecState::Return and no instruction runs.
C18_ReturnEndsFunction ==
    (last.rt.set /\ Len(ctl) >= last.rt.depth) =>
        /\ phase = "running"
        /\ pending = Returning

\* the exec call of an If's selected branch has reached the end of the branch
\* and the If arm has handled its return
IfBranchRanToEnd ==
    /\ last.op = "IfReturn"
    /\ last.prev = "ExecEnd"

\* C19: after an If whose selected branch runs to its end, without a branch
\* and without an explicit Return, execution continues in the enclosing
\* sequence with the instruction that follows the If; the function does not
\* return at that point.
C19_IfFallsThrough ==
    IfBranchRanToEnd =>
        /\ phase = "running"
        /\ pending.k = "None"
        /\ Len(ctl) = last.depth - 1
        /\ TopCall.next >= 2
        /\ TopCall.instrs[TopCall.next - 1].op = "If"

\* the label region holds the labels the Loop was entered with, in place
EnclosingLabelsKept(labels, labels0) ==
    /\ Len(labels) >= Len(labels0)
    /\ SubSeq(labels, 1, Len(labels0)) = labels0

\* a Br(0) that is an instruction of a Loop's body ends without failure in
\* Breaking(0), with the labels of the constructs around the Loop in place
LoopBrKeepsLabels ==
    (AtInstr("Br") /\ CurInstr.l = 0 /\ TopCall.kind = "loop") =>
        /\ phase' = "running"
        /\ pending' = Breaking(0)
        /\ EnclosingLabelsKept(
              instances'[CurFrame.instance_addr + 1].stack.labels, TopCall.labels0)

\* the Loop arm answers that Breaking(0) by running the body again from its
\* first instruction, on those labels
LoopReentersAtHead ==
    (AtReturn("loop") /\ pending = Breaking(0) /\ last.op = "Br") =>
        /\ pending' = NoPending
        /\ ctl' = [ctl EXCEPT ![Len(ctl)].next = 1]
        /\ EnclosingLabelsKept(
              instances'[CurFrame.instance_addr + 1].stack.labels, TopCall.labels0)

\* and they are in place when the Loop is left by a Return
LoopLeavesLabels ==
    (AtReturn("loop") /\ pending.k = "Return") =>
        EnclosingLabelsKept(CurStack.labels, TopCall.labels0)

\* C20: a Br(0) executed directly in a Loop body targets the Loop itself:
\* the body is re-executed from its first instruction, and the labels of all
\* constructs enclosing the Loop are on the label region, unchanged, at every
\* re-entry and after the Loop is left.
C20_LoopBrTargetsLoop ==
    [][LoopBrKeepsLabels /\ LoopReentersAtHead /\ LoopLeavesLabels]_vars

\* a Call(a) has just run (or panicked) in a frame whose instance has a
\* function index a
CallRan ==
    /\ last.op = "Call"
    /\ last.instr.a < Len(instances[last.instance_addr + 1].funcaddrs)

\* the function the module of the calling instance has at function index a:
\* store.funcs[I.funcaddrs[a]]
CalledByIndex ==
    store.funcs[instances[last.instance_addr + 1].funcaddrs[last.instr.a + 1] + 1]

\* C22: Call(a) executed in a frame of instance I invokes the function that
\* I's module has at function index a in its own index space, that is
\* store.funcs[I.funcaddrs[a]]: an inner function's body starts to run in a
\* frame of the instance that defines it, a host function is run on I's stack;
\* this holds for every instance, whatever addresses its functions have.
C22_CallUsesFuncaddrs ==
    CallRan =>
        /\ ~last.panic
        /\ IF CalledByIndex.kind = "InnerFunc"
           THEN /\ Len(ctl) = last.depth + 1
                /\ TopCall.kind = "call"
                /\ TopCall.next = 1
                /\ TopCall.instrs = CalledByIndex.func.body
                /\ TopCall.frame.instance_addr = CalledByIndex.instance_addr
           ELSE /\ Len(ctl) = last.depth
                /\ CurStack = host_call(last.stack, CalledByIndex.functype)

\* a Call to an inner function has just returned to its caller
CallReturned ==
    /\ last.op = "CallReturn"
    /\ phase = "running"
    /\ pending.k = "None"

\* C23: a Call to an inner function leaves the caller's label region
\* unchanged: whatever the callee executes (Blocks that run to their end,
\* Blocks left by a branch, a Br at the top level of its body, a Return), when
\* the Call returns the labels of the caller are exactly the labels present
\* before the Call, in the same order.
C23_CallKeepsCallerLabels ==
    CallReturned => CurStack.labels = last.labels0

\* the sequence, or a sequence nested in it, contains a Loop
RECURSIVE HasLoop(_)
HasLoop(instrs) ==
    \E j \in 1..Len(instrs) :
        \/ instrs[j].op = "Loop"
        \/ instrs[j].op = "Block" /\ HasLoop(instrs[j].in1)
        \/ instrs[j].op = "If" /\ (HasLoop(instrs[j].in1) \/ HasLoop(instrs[j].in2))

\* the function indices of the Calls of the sequence and of the sequences
\* nested in it
RECURSIVE CallIndices(_)
CallIndices(instrs) ==
    UNION { CASE instrs[j].op = "Call" -> {instrs[j].a}
              [] instrs[j].op \in {"Block", "Loop"} -> CallIndices(instrs[j].in1)
              [] instrs[j].op = "If" ->
                    CallIndices(instrs[j].in1) \cup CallIndices(instrs[j].in2)
              [] OTHER -> {}
            : j \in 1..Len(instrs) }

\* the store addresses Call(a) in a frame of the instance can stand for: the
\* address a itself and the address the instance has at function index a
Callees(a, instance_addr) ==
    {a} \cup (IF a < Len(instances[instance_addr + 1].funcaddrs)
              THEN {instances[instance_addr + 1].funcaddrs[a + 1]}
              ELSE {})

\* the code reachable from the body (from the function at addr) contains no
\* Loop, and no chain of calls from it comes back to a function of `path` or
\* to one it has passed
RECURSIVE LoopFreeBody(_, _, _)
RECURSIVE LoopFreeFunc(_, _)
LoopFreeBody(body, instance_addr, path) ==
    /\ ~HasLoop(body)
    /\ \A a \in CallIndices(body) : \A addr \in Callees(a, instance_addr) :
          LoopFreeFunc(addr, path)

LoopFreeFunc(addr, path) ==
    /\ addr \notin path
    /\ addr < Len(store.funcs)
    /\ \/ store.funcs[addr + 1].kind = "HostFunc"
       \/ LoopFreeBody(store.funcs[addr + 1].func.body,
                       store.funcs[addr + 1].instance_addr, path \cup {addr})

\* start or invoke is running a function whose reachable code has no Loop and
\* whose call graph is acyclic
LoopFreeRunning ==
    /\ phase = "running"
    /\ LoopFreeBody(ctl[1].instrs, ctl[1].frame.instance_addr, {})

\* no exec call of the running function goes back in its sequence, and an
\* exec call that goes on after an instruction goes on with the next one
ExecOnce ==
    LoopFreeRunning =>
        /\ \A d \in 1..Len(ctl) : d <= Len(ctl') => ctl'[d].next >= ctl[d].next
        /\ (/\ pending.k = "None"
            /\ Len(ctl') <= Len(ctl)
            /\ pending'.k = "None"
            /\ phase' = "running")
              => ctl'[Len(ctl')].next = ctl[Len(ctl')].next + 1

\* C24: every invoke or start of a function whose reachable code contains no
\* Loop and whose call graph is acyclic terminates, with a result or with a
\* trap (the call returns to the embedder); and exec executes each
\* instruction of such a sequence at most once per activation.
C24_LoopFreeTerminates ==
    /\ LoopFreeRunning ~> (phase = "idle")
    /\ [][ExecOnce]_vars

====
